---- MODULE Spec2Model ----
(***************************************************************************)
(* Model of .github/scripts/remove_xcb_deps.py: the Cargo.lock filter      *)
(* (remove_packages_from_cargo_lock), its validator (validate_cargo_lock)  *)
(* and the read / filter / validate / write sequence of main.              *)
(*                                                                         *)
(* A text is a sequence of tokens.  The tokens "[", "]", "=", ",", the     *)
(* double quote, the space and the newline stand for those characters;     *)
(* every other token ("name", "xcb", "1.2.0", ...) stands for a run of     *)
(* characters that contains none of them.                                  *)
(*                                                                         *)
(* The scripts under scripts/dev/py are modelled beside it, each with its  *)
(* own variable and its own specification: version/generate.py             *)
(* (SpecVersion, SpecRelease), tag/create.py (SpecTagCreate),              *)
(* tag/cleanup.py (SpecCleanup), pr/merge.py (SpecMerge),                  *)
(* ci/check_skip.py (SpecCheckSkip) and ci/verify.py (SpecVerify).         *)
(***************************************************************************)
EXTENDS Integers, Sequences, FiniteSets, TLC

\* ------------------------------------------------------------------ bounds
MaxLen == 4

StepCap == MaxLen + 2

MaxCommits == 2

MaxPatch == 10

\* commits in the history of a sequence of master releases
MaxHistory == 4

\* ------------------------------------------------------------------ tokens
NL == "\n"

Q == "\""

SP == " "

Whitespace == {SP, NL}

None == <<>>

PACKAGES_TO_REMOVE == { <<"clipboard">>, <<"x11-clipboard">>, <<"xcb">>, <<"clipboard-win">> }

PackageHeader == <<"[", "[", "package", "]", "]">>

DependenciesOpen == <<"dependencies", SP, "=", SP, "[">>

\* ------------------------------------------------------- string primitives
Min(S) == CHOOSE x \in S : \A y \in S : x <= y

\* str.split('\n')
RECURSIVE split(_)
split(s) ==
    LET nls == {k \in DOMAIN s : s[k] = NL}
    IN  IF nls = {} THEN <<s>>
        ELSE LET k == Min(nls)
             IN  <<SubSeq(s, 1, k - 1)>> \o split(SubSeq(s, k + 1, Len(s)))

\* '\n'.join(list)
RECURSIVE join(_)
join(ls) ==
    IF ls = <<>> THEN <<>>
    ELSE IF Len(ls) = 1 THEN ls[1]
    ELSE ls[1] \o <<NL>> \o join(Tail(ls))

\* str.strip()
strip(s) ==
    LET solid == {k \in DOMAIN s : s[k] \notin Whitespace}
    IN  IF solid = {} THEN <<>>
        ELSE SubSeq(s, Min(solid), CHOOSE x \in solid : \A y \in solid : y <= x)

\* str.startswith(prefix)
startswith(s, prefix) ==
    /\ Len(prefix) <= Len(s)
    /\ SubSeq(s, 1, Len(prefix)) = prefix

\* str.count(ch)
count(s, ch) == Cardinality({k \in DOMAIN s : s[k] = ch})

\* sub in s
contains(s, sub) ==
    \E k \in 0..(Len(s) - Len(sub)) : SubSeq(s, k + 1, k + Len(sub)) = sub

\* first index >= p of s that holds no whitespace (Len(s)+1 when none): \s*
SkipWs(s, p) ==
    Min({k \in p..Len(s) : s[k] \notin Whitespace} \cup {Len(s) + 1})

\* ----------------------------------------------------------- line helpers
is_package_block_start(line) == strip(line) = PackageHeader

\* the group of  name\s*=\s*"([^"]+)"  when the pattern matches at p, else None
NameMatchAt(line, p) ==
    IF line[p] # "name" THEN None
    ELSE LET e == SkipWs(line, p + 1)
         IN  IF e > Len(line) \/ line[e] # "=" THEN None
             ELSE LET o == SkipWs(line, e + 1)
                  IN  IF o > Len(line) \/ line[o] # Q THEN None
                      ELSE LET cl == {k \in (o + 1)..Len(line) : line[k] = Q}
                           IN  IF cl = {} \/ Min(cl) = o + 1 THEN None
                               ELSE SubSeq(line, o + 1, Min(cl) - 1)

\* re.search: the leftmost match
extract_package_name(line) ==
    LET hits == {p \in DOMAIN line : NameMatchAt(line, p) # None}
    IN  IF hits = {} THEN None ELSE NameMatchAt(line, Min(hits))

is_dependency_line(line, packages) ==
    \E pkg \in packages : startswith(strip(line), <<Q>> \o pkg \o <<Q>>)

\* ------------------------------------------------------------ input lines
LPackage == PackageHeader

LNameXcb == <<"name", SP, "=", SP, Q, "xcb", Q>>

LNameAlpha == <<"name", SP, "=", SP, Q, "alpha", Q>>

LDeps == DependenciesOpen

LDepXcb == <<SP, Q, "xcb", Q, ",">>

LDepXcbVer == <<SP, Q, "xcb", SP, "1.2.0", Q, ",">>

LDepXcbClose == <<SP, Q, "xcb", Q, "]">>

LClose == <<"]">>

LEmpty == <<>>

Alphabet ==
    {LPackage, LNameXcb, LNameAlpha, LDeps, LDepXcb, LDepXcbVer,
     LDepXcbClose, LClose, LEmpty}

\* every text of 1..MaxLen lines over the alphabet
Inputs == {join(ls) : ls \in UNION {[1..n -> Alphabet] : n \in 1..MaxLen}}

\* --------------------------------------- remove_packages_from_cargo_lock
\* the locals of the function at loop entry (i counts from 0 as in the code)
FilterInit(content) ==
    [lines |-> split(content), i |-> 0, result |-> <<>>,
     in_dependencies |-> FALSE, bracket_depth |-> 0,
     removed_packages |-> {}, removed_deps_count |-> 0,
     processed_packages |-> 0,
     current_package_lines |-> <<>>, current_package_name |-> None,
     skip_current_package |-> FALSE]

Running(s) == s.i < Len(s.lines)

Cur(s) == s.lines[s.i + 1]

\* only a block whose name has been read is flushed
Flushes_NamedOnly(s) ==
    /\ s.current_package_lines # <<>> /\ ~s.skip_current_package
    /\ s.current_package_name # None

\* "if current_package_lines and not skip_current_package"
Flushes(s) == s.current_package_lines # <<>> /\ ~s.skip_current_package

\* a [[package]] line: flush the previous block, reset the block state
AtBlockStart(s) == is_package_block_start(Cur(s))

\* the block start without the reset of the array tracking
BlockStartStep_ArrayStateKept(s) ==
    [s EXCEPT
       !.result = IF Flushes(s) THEN @ \o s.current_package_lines ELSE @,
       !.processed_packages = IF Flushes(s) THEN @ + 1 ELSE @,
       !.current_package_lines = <<Cur(s)>>,
       !.current_package_name = None,
       !.skip_current_package = FALSE,
       !.i = @ + 1]

BlockStartStep(s) ==
    [s EXCEPT
       !.result = IF Flushes(s) THEN @ \o s.current_package_lines ELSE @,
       !.processed_packages = IF Flushes(s) THEN @ + 1 ELSE @,
       !.current_package_lines = <<Cur(s)>>,
       !.current_package_name = None,
       !.skip_current_package = FALSE,
       !.in_dependencies = FALSE,
       !.bracket_depth = 0,
       !.i = @ + 1]

\* the skip branch: i += 1, scan to the next [[package]] line, step back one
AtSkip(s) == ~AtBlockStart(s) /\ s.skip_current_package

SkipTarget(s) ==
    LET n == Len(s.lines)
        starts == {k \in (s.i + 1)..(n - 1) : is_package_block_start(s.lines[k + 1])}
    IN  IF starts = {} THEN n ELSE Min(starts) - 1

SkipStep(s) == [s EXCEPT !.i = SkipTarget(s)]

\* the name read from every line, whether or not the block has one already
PkgName_EveryLine(s) == extract_package_name(Cur(s))

\* the name of the block is read from the first line that carries one
PkgName(s) ==
    IF s.current_package_name = None THEN extract_package_name(Cur(s)) ELSE None

\* the removal test made on the block's stored name, before the name found
\* on this line has been stored
AtRemovedName_StaleName(s) ==
    /\ ~AtBlockStart(s) /\ ~s.skip_current_package
    /\ PkgName(s) # None
    /\ s.current_package_name \in PACKAGES_TO_REMOVE

AtRemovedName(s) ==
    /\ ~AtBlockStart(s) /\ ~s.skip_current_package
    /\ PkgName(s) # None
    /\ PkgName(s) \in PACKAGES_TO_REMOVE

\* the removal without the clearing of the buffer
RemovedNameStep_BufferKept(s) ==
    [s EXCEPT
       !.current_package_name = PkgName(s),
       !.skip_current_package = TRUE,
       !.removed_packages = @ \cup {PkgName(s)},
       !.i = @ + 1]

RemovedNameStep(s) ==
    [s EXCEPT
       !.current_package_name = PkgName(s),
       !.skip_current_package = TRUE,
       !.removed_packages = @ \cup {PkgName(s)},
       !.current_package_lines = <<>>,
       !.i = @ + 1]

NameAfter(s) == IF PkgName(s) # None THEN PkgName(s) ELSE s.current_package_name

\* "dependencies = [" seen outside an array
OpensDependencies(s) ==
    ~s.in_dependencies /\ startswith(strip(Cur(s)), DependenciesOpen)

InDependencies(s) == s.in_dependencies \/ OpensDependencies(s)

DepthAfter(s) ==
    (IF OpensDependencies(s) THEN 1 ELSE s.bracket_depth)
      + count(Cur(s), "[") - count(Cur(s), "]")

\* state of the array tracking after the line, shared by both exits
TrackAfter(s) ==
    [s EXCEPT
       !.current_package_name = NameAfter(s),
       !.in_dependencies = InDependencies(s) /\ DepthAfter(s) > 0,
       !.bracket_depth = IF InDependencies(s)
                         THEN (IF DepthAfter(s) <= 0 THEN 0 ELSE DepthAfter(s))
                         ELSE @,
       !.i = @ + 1]

AtPlain(s) == ~AtBlockStart(s) /\ ~s.skip_current_package /\ ~AtRemovedName(s)

AtDroppedDep(s) ==
    AtPlain(s) /\ InDependencies(s) /\ is_dependency_line(Cur(s), PACKAGES_TO_REMOVE)

DropDepStep(s) ==
    [TrackAfter(s) EXCEPT !.removed_deps_count = @ + 1]

AtKept(s) == AtPlain(s) /\ ~AtDroppedDep(s)

\* the stripped line buffered in place of the line
KeepStep_Stripped(s) ==
    [TrackAfter(s) EXCEPT !.current_package_lines = Append(@, strip(Cur(s)))]

KeepStep(s) ==
    [TrackAfter(s) EXCEPT !.current_package_lines = Append(@, Cur(s))]

\* one iteration of "while i < len(lines)"
LoopStep(s) ==
    IF AtBlockStart(s) THEN BlockStartStep(s)
    ELSE IF AtSkip(s) THEN SkipStep(s)
    ELSE IF AtRemovedName(s) THEN RemovedNameStep(s)
    ELSE IF AtDroppedDep(s) THEN DropDepStep(s)
    ELSE KeepStep(s)

\* after the loop: flush the last block
FinalFlush(s) ==
    [s EXCEPT
       !.result = IF Flushes(s) THEN @ \o s.current_package_lines ELSE @,
       !.processed_packages = IF Flushes(s) THEN @ + 1 ELSE @]

\* --------------------------------------------------- validate_cargo_lock
\* the scan without the test of the last block after the loop
RECURSIVE ValidateScan_LastUnchecked(_, _, _, _)
ValidateScan_LastUnchecked(lines, k, in_package, has_name) ==
    IF k > Len(lines) THEN TRUE
    ELSE LET line == lines[k]
             named == has_name \/ extract_package_name(line) # None
         IN  IF strip(line) = PackageHeader
             THEN IF in_package /\ ~has_name THEN FALSE
                  ELSE ValidateScan_LastUnchecked(lines, k + 1, TRUE, FALSE)
             ELSE IF in_package
             THEN IF startswith(strip(line), <<"[">>) /\ ~startswith(strip(line), <<"[", "[">>)
                  THEN IF ~named THEN FALSE
                       ELSE ValidateScan_LastUnchecked(lines, k + 1, FALSE, named)
                  ELSE ValidateScan_LastUnchecked(lines, k + 1, TRUE, named)
             ELSE ValidateScan_LastUnchecked(lines, k + 1, in_package, has_name)

RECURSIVE ValidateScan(_, _, _, _)
ValidateScan(lines, k, in_package, has_name) ==
    IF k > Len(lines) THEN ~(in_package /\ ~has_name)
    ELSE LET line == lines[k]
             named == has_name \/ extract_package_name(line) # None
         IN  IF strip(line) = PackageHeader
             THEN IF in_package /\ ~has_name THEN FALSE
                  ELSE ValidateScan(lines, k + 1, TRUE, FALSE)
             ELSE IF in_package
             THEN IF startswith(strip(line), <<"[">>) /\ ~startswith(strip(line), <<"[", "[">>)
                  THEN IF ~named THEN FALSE
                       ELSE ValidateScan(lines, k + 1, FALSE, named)
                  ELSE ValidateScan(lines, k + 1, TRUE, named)
             ELSE ValidateScan(lines, k + 1, in_package, has_name)

\* the validation without the bracket count test
validate_cargo_lock_NoBracketTest(content) ==
    /\ contains(content, PackageHeader)
    /\ ValidateScan(split(content), 1, FALSE, FALSE)

validate_cargo_lock(content) ==
    /\ contains(content, PackageHeader)
    /\ ~(count(content, "[") < count(content, "]"))
    /\ ValidateScan(split(content), 1, FALSE, FALSE)

\* ------------------------------- version/generate.py: the increment type
\* a commit message is a token sequence like a text; "!" and ":" stand for
\* those characters
PatchRollover == 9

\* str.find(ch): index from 0 of the first occurrence, -1 when there is none
find(s, ch) ==
    LET at == {k \in DOMAIN s : s[k] = ch}
    IN  IF at = {} THEN -1 ELSE Min(at) - 1

\* str.endswith(suffix)
endswith(s, suffix) ==
    /\ Len(suffix) <= Len(s)
    /\ SubSeq(s, Len(s) - Len(suffix) + 1, Len(s)) = suffix

\* "BREAKING CHANGE" in commit_msg or "BREAKING:" in commit_msg
MentionsBreaking(commit_msg) ==
    \/ contains(commit_msg, <<"BREAKING", SP, "CHANGE">>)
    \/ contains(commit_msg, <<"BREAKING", ":">>)

\* the "!" marker: the text before the first ":" ends with "!"
HasBangMarker(commit_msg) ==
    /\ count(commit_msg, "!") > 0 /\ count(commit_msg, ":") > 0
    /\ LET colon_pos == find(commit_msg, ":")
       IN  /\ colon_pos > 0
           /\ endswith(SubSeq(commit_msg, 1, colon_pos), <<"!">>)

StartsWithFeat(commit_msg) ==
    \/ startswith(commit_msg, <<"feat", ":">>)
    \/ startswith(commit_msg, <<"feature", ":">>)

\* the loop over the commit messages, from message k on
RECURSIVE ScanCommits(_, _, _, _)
ScanCommits(commits, k, has_breaking, has_feat) ==
    IF k > Len(commits) THEN [has_breaking |-> has_breaking, has_feat |-> has_feat]
    ELSE ScanCommits(commits, k + 1,
                     has_breaking \/ MentionsBreaking(commits[k]) \/ HasBangMarker(commits[k]),
                     has_feat \/ StartsWithFeat(commits[k]))

\* the patch rule tested before the breaking change
determine_version_increment_PatchFirst(commits, current_patch) ==
    LET seen == ScanCommits(commits, 1, FALSE, FALSE)
    IN  IF current_patch >= PatchRollover THEN "minor"
        ELSE IF seen.has_breaking THEN "major"
        ELSE IF seen.has_feat THEN "minor"
        ELSE "patch"

determine_version_increment(commits, current_patch) ==
    LET seen == ScanCommits(commits, 1, FALSE, FALSE)
    IN  IF seen.has_breaking THEN "major"
        ELSE IF current_patch >= PatchRollover THEN "minor"
        ELSE IF seen.has_feat THEN "minor"
        ELSE "patch"

\* commit messages
MFix == <<"fix", ":", SP, "x">>

MFeat == <<"feat", ":", SP, "x">>

MFeature == <<"feature", ":", SP, "x">>

MFeatBang == <<"feat", "!", ":", SP, "x">>

MBreakingChange == <<"fix", ":", SP, "x", NL, NL, "BREAKING", SP, "CHANGE", ":", SP, "y">>

MBreakingColon == <<"BREAKING", ":", SP, "x">>

MBangLater == <<"fix", ":", SP, "x", "!", ":", SP, "y">>

MLeadingColon == <<":", "!", ":", "x">>

MDocsFeat == <<"docs", ":", SP, "feat", ":", SP, "x">>

MBangOnly == <<"wip", "!">>

Messages ==
    {MFix, MFeat, MFeature, MFeatBang, MBreakingChange, MBreakingColon,
     MBangLater, MLeadingColon, MDocsFeat, MBangOnly}

\* every list of 0..MaxCommits messages
CommitLists == UNION {[1..n -> Messages] : n \in 0..MaxCommits}

\* no call of determine_version_increment in progress
VerIdle == [pc |-> "idle", commits |-> <<>>, current_patch |-> 0, increment_type |-> "none"]

\* --------------------------- version/generate.py: generate_master_version
\* a version or tag text is a token sequence: "v" and "." stand for those
\* characters, a run of digits is one token (the decimal text of a number)
\* and "alpha-" with the timestamp after it stands for a pre-release suffix

\* the largest number a release sequence of MaxHistory commits can reach
MaxNumber == PatchRollover + MaxHistory + 2

\* str.isdigit() of one token
isdigit(tok) == \E n \in 0..MaxNumber : ToString(n) = tok

\* int(tok) of a token that is a run of digits
int(tok) == CHOOSE n \in 0..MaxNumber : ToString(n) = tok

\* str.split(sep)
RECURSIVE split_at(_, _)
split_at(s, sep) ==
    LET seps == {k \in DOMAIN s : s[k] = sep}
    IN  IF seps = {} THEN <<s>>
        ELSE LET k == Min(seps)
             IN  <<SubSeq(s, 1, k - 1)>> \o split_at(SubSeq(s, k + 1, Len(s)), sep)

\* sep.join(list)
RECURSIVE join_with(_, _)
join_with(ls, sep) ==
    IF ls = <<>> THEN <<>>
    ELSE IF Len(ls) = 1 THEN ls[1]
    ELSE ls[1] \o <<sep>> \o join_with(Tail(ls), sep)

\* str.lstrip(ch)
RECURSIVE lstrip(_, _)
lstrip(s, ch) == IF s # <<>> /\ s[1] = ch THEN lstrip(Tail(s), ch) ELSE s

\* f"{major}.{minor}.{patch}"
FormatVersion(major, minor, patch) ==
    <<ToString(major), ".", ToString(minor), ".", ToString(patch)>>

\* one field of parse_version: int(parts[k]) if the part is there and is a
\* run of digits, else 0
VersionPart(parts, k) ==
    IF Len(parts) >= k /\ Len(parts[k]) = 1 /\ isdigit(parts[k][1])
    THEN int(parts[k][1]) ELSE 0

parse_version(version_str) ==
    LET parts == split_at(version_str, ".")
    IN  <<VersionPart(parts, 1), VersionPart(parts, 2), VersionPart(parts, 3)>>

\* version_regex.match(tag): ^v(\d+)\.(\d+)\.(\d+)$
IsStandardTag(tag) ==
    /\ Len(tag) = 6
    /\ tag[1] = "v" /\ tag[3] = "." /\ tag[5] = "."
    /\ isdigit(tag[2]) /\ isdigit(tag[4]) /\ isdigit(tag[6])

\* the groups of the match as numbers
TagNumbers(tag) == <<int(tag[2]), int(tag[4]), int(tag[6])>>

\* the order of the tuples that the sort of get_latest_version uses
TupleLess(a, b) ==
    \/ a[1] < b[1]
    \/ a[1] = b[1] /\ a[2] < b[2]
    \/ a[1] = b[1] /\ a[2] = b[2] /\ a[3] < b[3]

\* tags: the names that "git tag --list" prints
get_latest_version(tags) ==
    LET version_tags == {tag \in tags : IsStandardTag(tag)}
    IN  IF version_tags # {}
        THEN LET latest_tag == CHOOSE tag \in version_tags :
                                  \A other \in version_tags :
                                      ~TupleLess(TagNumbers(tag), TagNumbers(other))
             IN  [version |-> lstrip(latest_tag, "v"), tag |-> latest_tag]
        ELSE [version |-> <<"0", ".", "0", ".", "0">>,
              tag |-> <<"v", "0", ".", "0", ".", "0">>]

\* a repository is [log, tags]: log[k] is the subject of commit k of the
\* branch, HEAD is commit Len(log), and tags is a set of [name, at]
TagNames(repo) == {t.name : t \in repo.tags}

\* get_last_commit_sha(): no commit, no sha
HeadOf(repo) == Len(repo.log)

\* "git tag --points-at": the names of the tags at a commit
get_tags_at_commit(repo, commit_sha) == {t.name : t \in {u \in repo.tags : u.at = commit_sha}}

\* the subjects of commits from + 1 .. to, the newest first, as "git log" prints them
RECURSIVE LogBetween(_, _, _)
LogBetween(log, from, to) ==
    IF to <= from THEN <<>> ELSE <<log[to]>> \o LogBetween(log, from, to - 1)

get_commits_between(repo, from_ref) ==
    LET t == CHOOSE u \in repo.tags : u.name = from_ref
    IN  LogBetween(repo.log, t.at, HeadOf(repo))

get_branch_commits(repo, limit) ==
    LogBetween(repo.log, IF HeadOf(repo) > limit THEN HeadOf(repo) - limit ELSE 0, HeadOf(repo))

\* the three branches that apply the increment
\* the minor branch without "patch = 0"
ApplyIncrement_PatchKept(v, increment_type) ==
    IF increment_type = "major" THEN <<v[1] + 1, 0, 0>>
    ELSE IF increment_type = "minor" THEN <<v[1], v[2] + 1, v[3]>>
    ELSE <<v[1], v[2], v[3] + 1>>

ApplyIncrement(v, increment_type) ==
    IF increment_type = "major" THEN <<v[1] + 1, 0, 0>>
    ELSE IF increment_type = "minor" THEN <<v[1], v[2] + 1, 0>>
    ELSE <<v[1], v[2], v[3] + 1>>

\* without the test of the tags of HEAD
generate_master_version_NoReuse(repo, latest_version, latest_tag) ==
    LET v == parse_version(latest_version)
        commits == IF latest_tag # <<>> /\ latest_tag \in TagNames(repo)
                   THEN get_commits_between(repo, latest_tag)
                   ELSE get_branch_commits(repo, 10)
        increment_type == determine_version_increment(commits, v[3])
        n == ApplyIncrement(v, increment_type)
        version == FormatVersion(n[1], n[2], n[3])
    IN  [version |-> version, tag |-> <<"v">> \o version,
         needs_increment |-> TRUE, increment_type |-> increment_type]

\* the tag of HEAD that is reused: the histories of the model hold at most
\* one standard tag per commit, so the first match of the loop is the match
generate_master_version(repo, latest_version, latest_tag) ==
    LET v == parse_version(latest_version)
        current_sha == HeadOf(repo)
        at_head == IF current_sha > 0
                   THEN {tag \in get_tags_at_commit(repo, current_sha) : IsStandardTag(tag)}
                   ELSE {}
        commits == IF latest_tag # <<>> /\ latest_tag \in TagNames(repo)
                   THEN get_commits_between(repo, latest_tag)
                   ELSE get_branch_commits(repo, 10)
        increment_type == determine_version_increment(commits, v[3])
        n == ApplyIncrement(v, increment_type)
        version == FormatVersion(n[1], n[2], n[3])
    IN  IF at_head # {}
        THEN LET tag == CHOOSE t \in at_head : TRUE
             IN  [version |-> lstrip(tag, "v"), tag |-> tag,
                  needs_increment |-> FALSE, increment_type |-> "none"]
        ELSE [version |-> version, tag |-> <<"v">> \o version,
              needs_increment |-> TRUE, increment_type |-> increment_type]

\* generate(args) with --master
generate(repo) ==
    LET latest == get_latest_version(TagNames(repo))
    IN  generate_master_version(repo, latest.version, latest.tag)

\* subjects of the commits of a release sequence
Subjects == {MFix, MFeat, MFeatBang}

\* a pre-release tag
AlphaTag == <<"v", "0", ".", "0", ".", "1", ".", "alpha-", "20251216101712000">>

\* the versions a release sequence starts from: the patch is at most 9
StartVersions == {<<M, m, p>> : M \in {0}, m \in {0, 1}, p \in 0..PatchRollover}

\* no release sequence in progress
RelIdle == [pc |-> "idle", repo |-> [log |-> <<>>, tags |-> {}],
            out |-> [version |-> <<>>, tag |-> <<>>, needs_increment |-> FALSE,
                     increment_type |-> "none"]]

\* ------------------------------------------------- tag/create.py: create
\* commits are numbered from 1; 0 stands for "no commit": a tag that is not
\* there, an option that was not given, None
TagCommits == 1..2

NoCommit == 0

\* a local of create that no statement has assigned yet
Unbound == -1

\* tag_exists(tag_name): (the tag resolves locally, ls-remote prints it)
tag_exists(local, remote) == <<local # NoCommit, remote # NoCommit>>

\* _get_tag_info(tag_name): "git rev-list -n 1" in the local repository
get_tag_info(local) == local

\* args.commit or current_head
TargetOf(args_commit, head) == IF args_commit # NoCommit THEN args_commit ELSE head

\* "git push origin <tag>" is accepted when the remote has no such tag or
\* has it at the same commit
PushAccepted(local, remote) == remote = NoCommit \/ remote = local

\* ----------------------------------------------- tag/cleanup.py: cleanup
\* the history that cleanup runs on: commit 1 is the root, 2 is master
\* before the merge, 3 is the merged branch, 4 merges 3 into 2, 5 is a
\* branch that is not merged, 6 is master after the merge.  Parents[c] is
\* the parents of commit c, the first parent first.
Parents == << <<>>, <<1>>, <<1>>, <<2, 3>>, <<1>>, <<4>> >>

RECURSIVE AncestorsOf(_)
AncestorsOf(c) ==
    {c} \cup UNION {AncestorsOf(Parents[c][k]) : k \in DOMAIN Parents[c]}

\* _is_ancestor: "git merge-base --is-ancestor commit1 commit2" returns 0
is_ancestor(commit1, commit2) == commit1 \in AncestorsOf(commit2)

\* "git rev-parse <commit>^1": NoCommit when the command fails
FirstParentOf(c) == IF Parents[c] = <<>> THEN NoCommit ELSE Parents[c][1]

\* ^v(\d+\.\d+\.\d+) matches at the start of the tag
StartsWithVersion(tag_name) ==
    /\ Len(tag_name) >= 6
    /\ IsStandardTag(SubSeq(tag_name, 1, 6))

\* _extract_version(tag_name): group 1 of the match, or None
extract_version(tag_name) ==
    IF StartsWithVersion(tag_name) THEN SubSeq(tag_name, 2, 6) ELSE None

\* alpha_pattern.match(tag): ^v\d+\.\d+\.\d+\.alpha-
IsAlphaTag(tag) ==
    /\ Len(tag) >= 8
    /\ StartsWithVersion(tag)
    /\ tag[7] = "." /\ tag[8] = "alpha-"

\* _list_alpha_tags() on the local tags
list_alpha_tags(tags) == {t \in tags : IsAlphaTag(t.name)}

\* lines 64-65: '.'.join(current_version.lstrip('v').split('.')[:3])
BaseVersionStr(current_version) ==
    LET parts == split_at(lstrip(current_version, "v"), ".")
    IN  join_with(SubSeq(parts, 1, Min({3, Len(parts)})), ".")

\* the loop of lines 109-142 without the test of the first parent
SelectTagsToDelete_NoFirstParentTest(alpha_tags, first_parent, master_head, base_version_str) ==
    {t.name : t \in
        {u \in alpha_tags :
            /\ u.at # NoCommit
            /\ \/ is_ancestor(u.at, master_head)
               \/ extract_version(u.name) = base_version_str}}

\* the loop of lines 109-142: the names appended to tags_to_delete
SelectTagsToDelete(alpha_tags, first_parent, master_head, base_version_str) ==
    {t.name : t \in
        {u \in alpha_tags :
            /\ u.at # NoCommit
            /\ ~is_ancestor(u.at, first_parent)
            /\ \/ is_ancestor(u.at, master_head)
               \/ extract_version(u.name) = base_version_str}}

\* tags of the repositories that cleanup runs on
TagAlphaCurrent == <<"v", "1", ".", "6", ".", "0", ".", "alpha-", "20251216101712000">>

TagAlphaOlder == <<"v", "1", ".", "5", ".", "0", ".", "alpha-", "20251101090000000">>

TagStandard == <<"v", "1", ".", "6", ".", "0">>

\* the values of --version
CleanupVersions ==
    { <<"v", "1", ".", "6", ".", "0">>,
      <<"1", ".", "6", ".", "0", ".", "alpha-", "20251216101712000">>,
      <<"1", ".", "5", ".", "1">> }

\* where a tag may be: Absent, or a commit, or NoCommit when the tag is
\* listed but does not resolve
Absent == -1

TagPlacements ==
    [a : {Absent, 2, 3, 4, 5}, b : {Absent, NoCommit, 2, 3, 5}, s : {Absent, 3, 5}]

TagsPlaced(pl) ==
    {t \in {[name |-> TagAlphaCurrent, at |-> pl.a],
            [name |-> TagAlphaOlder, at |-> pl.b],
            [name |-> TagStandard, at |-> pl.s]} : t.at # Absent}

\* ---------------------------------------------------- pr/merge.py: merge
\* the values of --max-wait, --initial-interval and --normal-interval;
\* 0 stands for an option that was not given (and for the value 0: "or"
\* replaces both by the default)
MaxWaits == {0, 20, 36, 66}

InitialIntervals == {0, 2, 40}

NormalIntervals == {0, 4}

\* "args.x or default"
OrDefault(x, default) == IF x # 0 THEN x ELSE default

\* line 53
CheckInterval(elapsed, initial_interval, normal_interval) ==
    IF elapsed < 60 THEN initial_interval ELSE normal_interval

\* ------------------------------------------- ci/check_skip.py: check_skip
\* a or b on strings: the first one that is not empty
OrElse(a, b) == IF a # "" THEN a ELSE b

\* a or b on texts
OrElseText(a, b) == IF a # <<>> THEN a ELSE b

\* branch names: "bump-version-" is one token, the rest of the name another
BumpPrefix == <<"bump-version-">>

BranchBump == <<"bump-version-", "1.6.1">>

BranchFeature == <<"feature/", "bump-version-", "x">>

\* args.branch or GITHUB_HEAD_REF or GITHUB_REF_NAME or _get_current_branch()
BranchOf(args_branch, head_ref, ref_name, current_branch) ==
    OrElseText(args_branch, OrElseText(head_ref, OrElseText(ref_name, current_branch)))

\* line 74: pr_creator and expected_user and pr_creator != expected_user
Unauthorized(pr_creator, expected_user) ==
    pr_creator # "" /\ expected_user # "" /\ pr_creator # expected_user

\* ---------------------------------------------------- ci/verify.py: verify
\* str.lower() and str.upper() on the tokens that occur
lower(tok) ==
    CASE tok = "Failure" -> "failure"
      [] tok = "True" -> "true"
      [] tok = "YES" -> "yes"
      [] OTHER -> tok

upper(tok) ==
    CASE tok = "check" -> "CHECK"
      [] tok = "lint" -> "LINT"
      [] tok = "tests" -> "TESTS"
      [] tok = "doctests" -> "DOCTESTS"
      [] tok = "build" -> "BUILD"
      [] OTHER -> tok

\* JobResult.from_str
from_str(x) ==
    LET s_lower == lower(x)
    IN  IF s_lower \in {"success", "failure", "cancelled", "skipped"} THEN s_lower
        ELSE "unknown"

\* line 43: f"{job.upper().replace('-', '_')}_RESULT"
EnvVarOf(job) ==
    [k \in DOMAIN job |-> IF upper(job[k]) = "-" THEN "_" ELSE upper(job[k])] \o <<"_RESULT">>

\* the environment maps the names in EnvVars to strings, "" when not set
EnvVars ==
    { <<"CHECK", "_", "LINT", "_RESULT">>, <<"TESTS", "_RESULT">>,
      <<"DOCTESTS", "_RESULT">>, <<"BUILD", "_RESULT">> }

\* os.environ.get(name, '')
EnvGet(env, name) == IF name \in DOMAIN env THEN env[name] ELSE ""

\* _get_job_result(job)
get_job_result(env, job) ==
    LET result_str == EnvGet(env, EnvVarOf(job))
    IN  IF result_str # "" THEN from_str(result_str) ELSE "unknown"

\* lines 57-63: the effective should_skip; args_should_skip is "none" when
\* the option was not given
ShouldSkipOf(args_should_skip, should_skip_env) ==
    IF args_should_skip # "none" THEN args_should_skip = "true"
    ELSE IF should_skip_env # "" THEN lower(should_skip_env) \in {"true", "1", "yes"}
    ELSE FALSE

DefaultJobs == << <<"check", "-", "lint">>, <<"tests">>, <<"doctests">>, <<"build">> >>

\* lines 70-73: [j.strip() for j in args.jobs.split(',')], or the default
JobsOf(args_jobs) ==
    IF args_jobs # <<>>
    THEN LET parts == split_at(args_jobs, ",")
         IN  [k \in DOMAIN parts |-> strip(parts[k])]
    ELSE DefaultJobs

\* the loop of lines 79-94 where a failed job leaves all_skipped alone
RECURSIVE ScanJobs_FailureKeepsAllSkipped(_, _, _, _, _)
ScanJobs_FailureKeepsAllSkipped(env, jobs, k, all_passed, all_skipped) ==
    IF k > Len(jobs) THEN [all_passed |-> all_passed, all_skipped |-> all_skipped]
    ELSE LET result == get_job_result(env, jobs[k])
         IN  ScanJobs_FailureKeepsAllSkipped(env, jobs, k + 1,
                      all_passed /\ result \notin {"failure", "cancelled"},
                      all_skipped /\ result # "success")

\* the loop of lines 79-94, from job k on
RECURSIVE ScanJobs(_, _, _, _, _)
ScanJobs(env, jobs, k, all_passed, all_skipped) ==
    IF k > Len(jobs) THEN [all_passed |-> all_passed, all_skipped |-> all_skipped]
    ELSE LET result == get_job_result(env, jobs[k])
         IN  ScanJobs(env, jobs, k + 1,
                      all_passed /\ result \notin {"failure", "cancelled"},
                      all_skipped /\ result \notin {"success", "failure", "cancelled"})

\* the variables that the loop reads
JobVarsRead(jobs) == {EnvVarOf(jobs[k]) : k \in DOMAIN jobs}

\* the values of --jobs
JobsArgs == { <<>>, <<"tests", ",", SP, "build">>, <<"tests">> }

\* the environments that verify runs in
JobEnvs ==
    { [v \in EnvVars |->
          IF v = <<"TESTS", "_RESULT">> THEN t
          ELSE IF v = <<"BUILD", "_RESULT">> THEN b
          ELSE IF v = <<"DOCTESTS", "_RESULT">> THEN d
          ELSE c] :
      t \in {"", "success", "failure", "cancelled", "skipped", "Failure", "timed_out"},
      b \in {"", "success", "failure", "cancelled", "skipped"},
      d \in {"", "skipped"},
      c \in {"", "success", "failure"} }

\* the other scripts, not started
TcIdle == [pc |-> "idle"]

ClIdle == [pc |-> "idle"]

MgIdle == [pc |-> "idle"]

CsIdle == [pc |-> "idle"]

VfIdle == [pc |-> "idle"]

\* ------------------------------------------------------------------ state
VARIABLES
    pc,                \* position of main
    disk,              \* text of Cargo.lock on disk
    disk0,             \* text of Cargo.lock when main started
    original_content,  \* main's local
    st,                \* locals of remove_packages_from_cargo_lock
    modified_content,  \* main's local
    exit_code,         \* main's return value, -1 while running
    steps,             \* iterations of the filter loop so far (saturating)
    write_opened,      \* Cargo.lock has been opened with mode 'w'
    ver,               \* a call of determine_version_increment: its position,
                       \* arguments and return value
    rel,               \* a sequence of master releases: the repository and
                       \* the last return value of generate
    tc,                \* a run of tag/create.py
    cl,                \* a run of tag/cleanup.py
    mg,                \* a run of pr/merge.py
    cs,                \* a run of ci/check_skip.py
    vf                 \* a run of ci/verify.py

\* the state of remove_xcb_deps.py
mainVars == <<pc, disk, disk0, original_content, st, modified_content,
              exit_code, steps, write_opened>>

\* the state of the scripts under scripts/dev/py
scriptVars == <<ver, rel, tc, cl, mg, cs, vf>>

\* what the steps of one script leave alone
verFrame == <<mainVars, rel, tc, cl, mg, cs, vf>>

relFrame == <<mainVars, ver, tc, cl, mg, cs, vf>>

tcFrame == <<mainVars, ver, rel, cl, mg, cs, vf>>

clFrame == <<mainVars, ver, rel, tc, mg, cs, vf>>

mgFrame == <<mainVars, ver, rel, tc, cl, cs, vf>>

csFrame == <<mainVars, ver, rel, tc, cl, mg, vf>>

vfFrame == <<mainVars, ver, rel, tc, cl, mg, cs>>

vars == <<mainVars, scriptVars>>

Init ==
    /\ disk \in Inputs
    /\ disk0 = disk
    /\ pc = "read"
    /\ original_content = <<>>
    /\ st = FilterInit(<<>>)
    /\ modified_content = <<>>
    /\ exit_code = -1
    /\ steps = 0
    /\ write_opened = FALSE
    /\ ver = VerIdle
    /\ rel = RelIdle
    /\ tc = TcIdle
    /\ cl = ClIdle
    /\ mg = MgIdle
    /\ cs = CsIdle
    /\ vf = VfIdle

Exit(code) == pc' = "exit" /\ exit_code' = code

\* open('Cargo.lock', 'r') raises FileNotFoundError or PermissionError
MainReadFails ==
    /\ pc = "read"
    /\ Exit(1)
    /\ UNCHANGED <<disk, disk0, original_content, st, modified_content, steps, write_opened>>
    /\ UNCHANGED scriptVars

\* the file is read; an all-whitespace text ends main with 1
MainReadEmpty ==
    /\ pc = "read"
    /\ strip(disk) = <<>>
    /\ original_content' = disk
    /\ Exit(1)
    /\ UNCHANGED <<disk, disk0, st, modified_content, steps, write_opened>>
    /\ UNCHANGED scriptVars

\* the file is read and the filter is entered
MainRead ==
    /\ pc = "read"
    /\ strip(disk) # <<>>
    /\ original_content' = disk
    /\ st' = FilterInit(disk)
    /\ pc' = "filter"
    /\ UNCHANGED <<disk, disk0, modified_content, exit_code, steps, write_opened>>
    /\ UNCHANGED scriptVars

\* what every iteration of the loop leaves alone, and the iteration count
IterationFrame ==
    /\ steps' = IF steps < StepCap THEN steps + 1 ELSE steps
    /\ UNCHANGED <<pc, disk, disk0, original_content, modified_content, exit_code, write_opened>>
    /\ UNCHANGED scriptVars

FilterBlockStart ==
    /\ pc = "filter" /\ Running(st)
    /\ AtBlockStart(st)
    /\ st' = BlockStartStep(st)
    /\ IterationFrame

FilterSkip ==
    /\ pc = "filter" /\ Running(st)
    /\ AtSkip(st)
    /\ st' = SkipStep(st)
    /\ IterationFrame

FilterRemovedName ==
    /\ pc = "filter" /\ Running(st)
    /\ AtRemovedName(st)
    /\ st' = RemovedNameStep(st)
    /\ IterationFrame

FilterDropDep ==
    /\ pc = "filter" /\ Running(st)
    /\ AtDroppedDep(st)
    /\ st' = DropDepStep(st)
    /\ IterationFrame

FilterKeep ==
    /\ pc = "filter" /\ Running(st)
    /\ AtKept(st)
    /\ st' = KeepStep(st)
    /\ IterationFrame

\* the loop is left: last flush, '\n'.join(result)
FilterReturn ==
    /\ pc = "filter"
    /\ ~Running(st)
    /\ st' = FinalFlush(st)
    /\ modified_content' = join(st'.result)
    /\ pc' = "validate"
    /\ UNCHANGED <<disk, disk0, original_content, exit_code, steps, write_opened>>
    /\ UNCHANGED scriptVars

MainInvalid ==
    /\ pc = "validate"
    /\ ~validate_cargo_lock(modified_content)
    /\ Exit(1)
    /\ UNCHANGED <<disk, disk0, original_content, st, modified_content, steps, write_opened>>
    /\ UNCHANGED scriptVars

MainNoChange ==
    /\ pc = "validate"
    /\ validate_cargo_lock(modified_content)
    /\ original_content = modified_content
    /\ Exit(0)
    /\ UNCHANGED <<disk, disk0, original_content, st, modified_content, steps, write_opened>>
    /\ UNCHANGED scriptVars

\* the write reached without the validation result
MainChanged_Unvalidated ==
    /\ pc = "validate"
    /\ original_content # modified_content
    /\ pc' = "open"
    /\ UNCHANGED <<disk, disk0, original_content, st, modified_content, exit_code, steps, write_opened>>
    /\ UNCHANGED scriptVars

MainChanged ==
    /\ pc = "validate"
    /\ validate_cargo_lock(modified_content)
    /\ original_content # modified_content
    /\ pc' = "open"
    /\ UNCHANGED <<disk, disk0, original_content, st, modified_content, exit_code, steps, write_opened>>
    /\ UNCHANGED scriptVars

\* open('Cargo.lock', 'w') raises PermissionError: nothing is truncated
MainOpenFails ==
    /\ pc = "open"
    /\ Exit(1)
    /\ UNCHANGED <<disk, disk0, original_content, st, modified_content, steps, write_opened>>
    /\ UNCHANGED scriptVars

\* open('Cargo.lock', 'w') truncates the file
MainOpen ==
    /\ pc = "open"
    /\ disk' = <<>>
    /\ write_opened' = TRUE
    /\ pc' = "write"
    /\ UNCHANGED <<disk0, original_content, st, modified_content, exit_code, steps>>
    /\ UNCHANGED scriptVars

\* f.write and the close of the with block succeed
MainWrite ==
    /\ pc = "write"
    /\ disk' = modified_content
    /\ Exit(0)
    /\ UNCHANGED <<disk0, original_content, st, modified_content, steps, write_opened>>
    /\ UNCHANGED scriptVars

\* f.write or the close raises (OSError): some prefix of the text, possibly
\* all of it, has reached the disk
MainWriteFails ==
    /\ pc = "write"
    /\ \E k \in 0..Len(modified_content) : disk' = SubSeq(modified_content, 1, k)
    /\ Exit(1)
    /\ UNCHANGED <<disk0, original_content, st, modified_content, steps, write_opened>>
    /\ UNCHANGED scriptVars

Next ==
    \/ MainReadFails
    \/ MainReadEmpty
    \/ MainRead
    \/ FilterBlockStart
    \/ FilterSkip
    \/ FilterRemovedName
    \/ FilterDropDep
    \/ FilterKeep
    \/ FilterReturn
    \/ MainInvalid
    \/ MainNoChange
    \/ MainChanged
    \/ MainOpenFails
    \/ MainOpen
    \/ MainWrite
    \/ MainWriteFails

Spec == Init /\ [][Next]_vars

\* ------------------------------------ calls of determine_version_increment
\* remove_xcb_deps.py is not run
MainIdle ==
    /\ pc = "idle"
    /\ disk = <<>>
    /\ disk0 = <<>>
    /\ original_content = <<>>
    /\ st = FilterInit(<<>>)
    /\ modified_content = <<>>
    /\ exit_code = -1
    /\ steps = 0
    /\ write_opened = FALSE

InitVersion ==
    /\ MainIdle
    /\ rel = RelIdle
    /\ tc = TcIdle
    /\ cl = ClIdle
    /\ mg = MgIdle
    /\ cs = CsIdle
    /\ vf = VfIdle
    /\ \E commits \in CommitLists, current_patch \in 0..MaxPatch :
          ver = [pc |-> "call", commits |-> commits,
                 current_patch |-> current_patch, increment_type |-> "none"]

DetermineVersionIncrement ==
    /\ ver.pc = "call"
    /\ ver' = [ver EXCEPT
                 !.pc = "done",
                 !.increment_type = determine_version_increment(ver.commits, ver.current_patch)]
    /\ UNCHANGED verFrame

NextVersion == DetermineVersionIncrement

SpecVersion == InitVersion /\ [][NextVersion]_vars

\* --------------------------------------------- a sequence of master releases
\* the repository holds no commit, or one commit that carries the tag of a
\* start version, with or without a pre-release tag beside it
InitRelease ==
    /\ MainIdle
    /\ ver = VerIdle
    /\ tc = TcIdle
    /\ cl = ClIdle
    /\ mg = MgIdle
    /\ cs = CsIdle
    /\ vf = VfIdle
    /\ \E log \in {<<>>, <<MFix>>} :
       \E start \in SUBSET {<<"v">> \o FormatVersion(v[1], v[2], v[3]) : v \in StartVersions},
          alpha \in SUBSET {AlphaTag} :
          /\ Cardinality(start) <= 1
          /\ log = <<>> => start \cup alpha = {}
          /\ rel = [RelIdle EXCEPT
                      !.pc = "ready",
                      !.repo = [log |-> log,
                                tags |-> {[name |-> n, at |-> 1] : n \in start \cup alpha}]]

\* a commit lands on master
ReleaseCommit ==
    /\ rel.pc = "ready"
    /\ Len(rel.repo.log) < MaxHistory
    /\ \E subject \in Subjects :
          rel' = [rel EXCEPT !.repo.log = Append(@, subject)]
    /\ UNCHANGED relFrame

\* generate(args) with --master
ReleaseGenerate ==
    /\ rel.pc = "ready"
    /\ rel' = [rel EXCEPT !.pc = "generated", !.out = generate(rel.repo)]
    /\ UNCHANGED relFrame

\* the release tags HEAD with the generated tag
ReleaseTag ==
    /\ rel.pc = "generated"
    /\ rel.out.needs_increment
    /\ HeadOf(rel.repo) > 0
    /\ rel.out.tag \notin TagNames(rel.repo)
    /\ rel' = [rel EXCEPT
                 !.pc = "ready",
                 !.repo.tags = @ \cup {[name |-> rel.out.tag, at |-> HeadOf(rel.repo)]}]
    /\ UNCHANGED relFrame

\* the release ends without a new tag
ReleaseUntagged ==
    /\ rel.pc = "generated"
    /\ rel' = [rel EXCEPT !.pc = "ready"]
    /\ UNCHANGED relFrame

NextRelease ==
    \/ ReleaseCommit
    \/ ReleaseGenerate
    \/ ReleaseTag
    \/ ReleaseUntagged

SpecRelease == InitRelease /\ [][NextRelease]_vars

\* ------------------------------------------------------ a run of tag create
\* local and remote are the commits the tag points at in the local
\* repository and on origin; local0 and remote0 are their values at the start
InitTagCreate ==
    /\ MainIdle
    /\ ver = VerIdle
    /\ rel = RelIdle
    /\ cl = ClIdle
    /\ mg = MgIdle
    /\ cs = CsIdle
    /\ vf = VfIdle
    /\ \E head \in TagCommits, args_commit \in {NoCommit} \cup TagCommits,
          local \in {NoCommit} \cup TagCommits, remote \in {NoCommit} \cup TagCommits,
          ci \in BOOLEAN :
          tc = [pc |-> "check", head |-> head, args_commit |-> args_commit, ci |-> ci,
                local |-> local, remote |-> remote, local0 |-> local, remote0 |-> remote,
                exists_local |-> FALSE, exists_remote |-> FALSE, target_sha |-> Unbound,
                deleted_local |-> FALSE, deleted_remote |-> FALSE,
                created |-> FALSE, pushed |-> FALSE,
                push_failed |-> FALSE, remote_at_failure |-> NoCommit,
                tag_created |-> "none", exit_code |-> -1, others |-> 0]

\* another runner pushes the tag to origin
TagPushedByOther ==
    /\ tc.pc \notin {"idle", "exit"}
    /\ tc.others = 0
    /\ tc.remote = NoCommit
    /\ \E c \in TagCommits : tc' = [tc EXCEPT !.remote = c, !.others = 1]
    /\ UNCHANGED tcFrame

\* line 50
TagCheck ==
    /\ tc.pc = "check"
    /\ LET e == tag_exists(tc.local, tc.remote)
       IN  tc' = [tc EXCEPT !.exists_local = e[1], !.exists_remote = e[2],
                            !.pc = IF e[1] \/ e[2] THEN "compare" ELSE "create"]
    /\ UNCHANGED tcFrame

\* lines 58-70: the tag is at the target, nothing to do
TagAlreadyCorrect ==
    /\ tc.pc = "compare"
    /\ get_tag_info(tc.local) = TargetOf(tc.args_commit, tc.head)
    /\ tc' = [tc EXCEPT !.target_sha = TargetOf(tc.args_commit, tc.head),
                        !.tag_created = IF tc.ci THEN "false" ELSE @,
                        !.pc = "exit", !.exit_code = 0]
    /\ UNCHANGED tcFrame

\* lines 71-80: the tag is elsewhere, or does not resolve locally: delete it
TagDeleteExisting ==
    /\ tc.pc = "compare"
    /\ get_tag_info(tc.local) # TargetOf(tc.args_commit, tc.head)
    /\ tc' = [tc EXCEPT !.target_sha = TargetOf(tc.args_commit, tc.head),
                        !.local = IF tc.exists_local THEN NoCommit ELSE @,
                        !.deleted_local = tc.exists_local,
                        !.remote = IF tc.exists_remote THEN NoCommit ELSE @,
                        !.deleted_remote = tc.exists_remote,
                        !.pc = "create"]
    /\ UNCHANGED tcFrame

\* line 85
TagCreate ==
    /\ tc.pc = "create"
    /\ tc' = [tc EXCEPT !.local = TargetOf(tc.args_commit, tc.head),
                        !.created = TRUE, !.pc = "push"]
    /\ UNCHANGED tcFrame

\* lines 91-93
TagPush ==
    /\ tc.pc = "push"
    /\ PushAccepted(tc.local, tc.remote)
    /\ tc' = [tc EXCEPT !.remote = tc.local, !.pushed = TRUE, !.pc = "report"]
    /\ UNCHANGED tcFrame

\* lines 94-95: the push is rejected
TagPushFails ==
    /\ tc.pc = "push"
    /\ ~PushAccepted(tc.local, tc.remote)
    /\ tc' = [tc EXCEPT !.push_failed = TRUE, !.remote_at_failure = tc.remote,
                        !.pc = "verify_remote"]
    /\ UNCHANGED tcFrame

\* lines 97-107: the remote tag is at another commit than target_sha
TagRemoteElsewhere ==
    /\ tc.pc = "verify_remote"
    /\ tc.remote # NoCommit
    /\ tc.target_sha # Unbound
    /\ tc.remote # tc.target_sha
    /\ tc' = [tc EXCEPT !.pc = "exit", !.exit_code = 1]
    /\ UNCHANGED tcFrame

\* lines 101-102 and 108-109: the remote tag is at target_sha, or the read
\* of the unassigned target_sha raises and the handler passes
TagRemoteAccepted ==
    /\ tc.pc = "verify_remote"
    /\ \/ tc.remote = NoCommit
       \/ tc.target_sha = Unbound
       \/ tc.remote = tc.target_sha
    /\ tc' = [tc EXCEPT !.pc = "report"]
    /\ UNCHANGED tcFrame

\* lines 111-121
TagReport ==
    /\ tc.pc = "report"
    /\ tc' = [tc EXCEPT !.tag_created = IF tc.ci THEN "true" ELSE @,
                        !.pc = "exit", !.exit_code = 0]
    /\ UNCHANGED tcFrame

NextTagCreate ==
    \/ TagPushedByOther
    \/ TagCheck
    \/ TagAlreadyCorrect
    \/ TagDeleteExisting
    \/ TagCreate
    \/ TagPush
    \/ TagPushFails
    \/ TagRemoteElsewhere
    \/ TagRemoteAccepted
    \/ TagReport

SpecTagCreate == InitTagCreate /\ [][NextTagCreate]_vars

\* ----------------------------------------------------- a run of tag cleanup
\* local is the set of [name, at] of the local tags, remote the set of the
\* tag names on origin; local0 and remote0 are their values at the start
InitCleanup ==
    /\ MainIdle
    /\ ver = VerIdle
    /\ rel = RelIdle
    /\ tc = TcIdle
    /\ mg = MgIdle
    /\ cs = CsIdle
    /\ vf = VfIdle
    /\ \E pl \in TagPlacements, merge_commit \in {1, 2, 4}, head \in {4, 6},
          version \in CleanupVersions, pushed \in BOOLEAN :
          LET tags == TagsPlaced(pl)
              remote == IF pushed THEN {t.name : t \in tags} ELSE {}
          IN  cl = [pc |-> "start", merge_commit |-> merge_commit, version |-> version,
                    head |-> head, local |-> tags, remote |-> remote,
                    local0 |-> tags, remote0 |-> remote,
                    first_parent |-> NoCommit, tags_to_delete |-> {},
                    deleted_count |-> -1, exit_code |-> -1]

\* lines 71-77: the merge commit has no first parent
CleanupNoFirstParent ==
    /\ cl.pc = "start"
    /\ FirstParentOf(cl.merge_commit) = NoCommit
    /\ cl' = [cl EXCEPT !.pc = "exit", !.exit_code = 1]
    /\ UNCHANGED clFrame

\* lines 92-98: no alpha tag
CleanupNoAlphaTags ==
    /\ cl.pc = "start"
    /\ FirstParentOf(cl.merge_commit) # NoCommit
    /\ list_alpha_tags(cl.local) = {}
    /\ cl' = [cl EXCEPT !.first_parent = FirstParentOf(cl.merge_commit),
                        !.deleted_count = 0, !.pc = "exit", !.exit_code = 0]
    /\ UNCHANGED clFrame

\* lines 105-149: the selection; no tag selected
CleanupNothingSelected ==
    /\ cl.pc = "start"
    /\ FirstParentOf(cl.merge_commit) # NoCommit
    /\ list_alpha_tags(cl.local) # {}
    /\ SelectTagsToDelete(list_alpha_tags(cl.local), FirstParentOf(cl.merge_commit),
                          cl.head, BaseVersionStr(cl.version)) = {}
    /\ cl' = [cl EXCEPT !.first_parent = FirstParentOf(cl.merge_commit),
                        !.deleted_count = 0, !.pc = "exit", !.exit_code = 0]
    /\ UNCHANGED clFrame

\* lines 105-142: the selection; some tag selected
CleanupSelect ==
    /\ cl.pc = "start"
    /\ FirstParentOf(cl.merge_commit) # NoCommit
    /\ list_alpha_tags(cl.local) # {}
    /\ LET selected == SelectTagsToDelete(list_alpha_tags(cl.local),
                                          FirstParentOf(cl.merge_commit),
                                          cl.head, BaseVersionStr(cl.version))
       IN  /\ selected # {}
           /\ cl' = [cl EXCEPT !.first_parent = FirstParentOf(cl.merge_commit),
                               !.tags_to_delete = selected, !.pc = "delete"]
    /\ UNCHANGED clFrame

\* lines 154-178: each selected tag is deleted locally, then on origin; a
\* deletion on origin of a tag that origin does not hold fails with a warning
CleanupDelete ==
    /\ cl.pc = "delete"
    /\ cl' = [cl EXCEPT
                !.local = {t \in cl.local : t.name \notin cl.tags_to_delete},
                !.remote = cl.remote \ cl.tags_to_delete,
                !.deleted_count = Cardinality(cl.tags_to_delete \cap cl.remote),
                !.pc = "exit", !.exit_code = 0]
    /\ UNCHANGED clFrame

NextCleanup ==
    \/ CleanupNoFirstParent
    \/ CleanupNoAlphaTags
    \/ CleanupNothingSelected
    \/ CleanupSelect
    \/ CleanupDelete

SpecCleanup == InitCleanup /\ [][NextCleanup]_vars

\* ---------------------------------------------------------- a run of merge
InitMerge ==
    /\ MainIdle
    /\ ver = VerIdle
    /\ rel = RelIdle
    /\ tc = TcIdle
    /\ cl = ClIdle
    /\ cs = CsIdle
    /\ vf = VfIdle
    /\ \E max_wait \in MaxWaits, initial_interval \in InitialIntervals,
          normal_interval \in NormalIntervals, ci \in BOOLEAN :
          mg = [pc |-> "start", ci |-> ci,
                args |-> [max_wait |-> max_wait, initial_interval |-> initial_interval,
                          normal_interval |-> normal_interval],
                max_wait |-> 0, initial_interval |-> 0, normal_interval |-> 0,
                elapsed |-> 0, polls |-> 0, last_poll |-> "none", merge_calls |-> 0,
                pr_merged |-> "none", pr_merge_reason |-> "none", exit_code |-> -1]

\* lines 36-50: the defaults, the first sleep
MergeStart ==
    /\ mg.pc = "start"
    /\ mg' = [mg EXCEPT !.max_wait = OrDefault(mg.args.max_wait, 300),
                        !.initial_interval = OrDefault(mg.args.initial_interval, 3),
                        !.normal_interval = OrDefault(mg.args.normal_interval, 5),
                        !.elapsed = 30, !.pc = "poll"]
    /\ UNCHANGED mgFrame

\* lines 57-61: get_pull_request raises
MergeFetchError ==
    /\ mg.pc = "poll"
    /\ mg.elapsed < mg.max_wait
    /\ mg' = [mg EXCEPT !.polls = @ + 1, !.last_poll = "error",
                        !.pc = "exit", !.exit_code = 1]
    /\ UNCHANGED mgFrame

\* lines 66-70: the PR is merged already
MergeSeenMerged ==
    /\ mg.pc = "poll"
    /\ mg.elapsed < mg.max_wait
    /\ mg' = [mg EXCEPT !.polls = @ + 1, !.last_poll = "merged",
                        !.pr_merged = IF mg.ci THEN "true" ELSE @,
                        !.pc = "exit", !.exit_code = 0]
    /\ UNCHANGED mgFrame

\* lines 72-75: mergeable is True
MergeMergeable ==
    /\ mg.pc = "poll"
    /\ mg.elapsed < mg.max_wait
    /\ mg' = [mg EXCEPT !.polls = @ + 1, !.last_poll = "mergeable", !.pc = "merge"]
    /\ UNCHANGED mgFrame

\* lines 78-84 with the sleep left out of the count
MergeWait_NoProgress ==
    /\ mg.pc = "poll"
    /\ mg.elapsed < mg.max_wait
    /\ \E result \in {"not_mergeable", "unknown"} :
          mg' = [mg EXCEPT !.polls = IF @ < 2 THEN @ + 1 ELSE @, !.last_poll = result]
    /\ UNCHANGED mgFrame

\* lines 78-84: not mergeable, or not known yet: sleep and count the sleep
MergeWait ==
    /\ mg.pc = "poll"
    /\ mg.elapsed < mg.max_wait
    /\ \E result \in {"not_mergeable", "unknown"} :
          mg' = [mg EXCEPT !.polls = @ + 1, !.last_poll = result,
                           !.elapsed = @ + CheckInterval(mg.elapsed, mg.initial_interval,
                                                         mg.normal_interval)]
    /\ UNCHANGED mgFrame

\* lines 86-89: the loop ends
MergeTimeout ==
    /\ mg.pc = "poll"
    /\ ~(mg.elapsed < mg.max_wait)
    /\ mg' = [mg EXCEPT !.pr_merged = IF mg.ci THEN "false" ELSE @,
                        !.pr_merge_reason = IF mg.ci THEN "timeout" ELSE @,
                        !.pc = "exit", !.exit_code = 1]
    /\ UNCHANGED mgFrame

\* lines 105-116: merge_pull_request returns True
PerformMergeMerged ==
    /\ mg.pc = "merge"
    /\ mg' = [mg EXCEPT !.merge_calls = @ + 1,
                        !.pr_merged = IF mg.ci THEN "true" ELSE @,
                        !.pc = "exit", !.exit_code = 0]
    /\ UNCHANGED mgFrame

\* lines 117-121: merge_pull_request returns False
PerformMergeRefused ==
    /\ mg.pc = "merge"
    /\ mg' = [mg EXCEPT !.merge_calls = @ + 1,
                        !.pr_merged = IF mg.ci THEN "false" ELSE @,
                        !.pr_merge_reason = IF mg.ci THEN "merge_failed" ELSE @,
                        !.pc = "exit", !.exit_code = 1]
    /\ UNCHANGED mgFrame

\* lines 122-126: merge_pull_request raises
PerformMergeRaises ==
    /\ mg.pc = "merge"
    /\ mg' = [mg EXCEPT !.merge_calls = @ + 1,
                        !.pr_merged = IF mg.ci THEN "false" ELSE @,
                        !.pr_merge_reason = IF mg.ci THEN "error" ELSE @,
                        !.pc = "exit", !.exit_code = 1]
    /\ UNCHANGED mgFrame

NextMerge ==
    \/ MergeStart
    \/ MergeFetchError
    \/ MergeSeenMerged
    \/ MergeMergeable
    \/ MergeWait
    \/ MergeTimeout
    \/ PerformMergeMerged
    \/ PerformMergeRefused
    \/ PerformMergeRaises

\* the script runs on: every sleep and every call of the API returns
SpecMerge == InitMerge /\ [][NextMerge]_vars /\ WF_vars(NextMerge)

\* ----------------------------------------------------- a run of check_skip
InitCheckSkip ==
    /\ MainIdle
    /\ ver = VerIdle
    /\ rel = RelIdle
    /\ tc = TcIdle
    /\ cl = ClIdle
    /\ mg = MgIdle
    /\ vf = VfIdle
    /\ \E args_branch \in {<<>>, BranchBump, BranchFeature},
          head_ref \in {<<>>, BranchBump, BranchFeature},
          ref_name \in {<<>>, BranchFeature}, current_branch \in {<<>>, BranchFeature},
          event_name \in {"pull_request", "push"},
          args_pr_creator \in {"", "bot", "mallory"}, env_pr_creator \in {"", "bot"},
          args_expected_user \in {"", "bot"}, env_expected_user \in {"", "bot"},
          ci \in BOOLEAN, output_set \in BOOLEAN :
          cs = [pc |-> "start",
                branch |-> BranchOf(args_branch, head_ref, ref_name, current_branch),
                event_name |-> event_name,
                pr_creator |-> OrElse(args_pr_creator, env_pr_creator),
                expected_user |-> OrElse(args_expected_user, env_expected_user),
                ci |-> ci, output_set |-> output_set,
                should_skip |-> "none", written |-> "none", exit_code |-> -1]

\* lines 54-56
CheckSkipNoBranch ==
    /\ cs.pc = "start"
    /\ cs.branch = <<>>
    /\ cs' = [cs EXCEPT !.pc = "exit", !.exit_code = 1]
    /\ UNCHANGED csFrame

\* lines 63-77: a bump-version-* pull request of another creator
CheckSkipUnauthorized ==
    /\ cs.pc = "start"
    /\ cs.branch # <<>>
    /\ startswith(cs.branch, BumpPrefix)
    /\ cs.event_name = "pull_request"
    /\ Unauthorized(cs.pr_creator, cs.expected_user)
    /\ cs' = [cs EXCEPT !.pc = "exit", !.exit_code = 1]
    /\ UNCHANGED csFrame

\* lines 63-80: a bump-version-* branch that passes
CheckSkipBump ==
    /\ cs.pc = "start"
    /\ cs.branch # <<>>
    /\ startswith(cs.branch, BumpPrefix)
    /\ cs.event_name = "pull_request" => ~Unauthorized(cs.pr_creator, cs.expected_user)
    /\ cs' = [cs EXCEPT !.should_skip = "True", !.pc = "output"]
    /\ UNCHANGED csFrame

\* lines 81-83
CheckSkipOtherBranch ==
    /\ cs.pc = "start"
    /\ cs.branch # <<>>
    /\ ~startswith(cs.branch, BumpPrefix)
    /\ cs' = [cs EXCEPT !.should_skip = "False", !.pc = "output"]
    /\ UNCHANGED csFrame

\* lines 86-92: the value is written to GITHUB_OUTPUT or printed
CheckSkipOutput ==
    /\ cs.pc = "output"
    /\ cs.ci => cs.output_set
    /\ cs' = [cs EXCEPT !.written = cs.should_skip, !.pc = "exit", !.exit_code = 0]
    /\ UNCHANGED csFrame

\* lines 30-33: --ci without GITHUB_OUTPUT
CheckSkipNoOutputFile ==
    /\ cs.pc = "output"
    /\ cs.ci /\ ~cs.output_set
    /\ cs' = [cs EXCEPT !.pc = "exit", !.exit_code = 1]
    /\ UNCHANGED csFrame

NextCheckSkip ==
    \/ CheckSkipNoBranch
    \/ CheckSkipUnauthorized
    \/ CheckSkipBump
    \/ CheckSkipOtherBranch
    \/ CheckSkipOutput
    \/ CheckSkipNoOutputFile

SpecCheckSkip == InitCheckSkip /\ [][NextCheckSkip]_vars

\* --------------------------------------------------------- a run of verify
InitVerify ==
    /\ MainIdle
    /\ ver = VerIdle
    /\ rel = RelIdle
    /\ tc = TcIdle
    /\ cl = ClIdle
    /\ mg = MgIdle
    /\ cs = CsIdle
    /\ \E args_should_skip \in {"none", "true", "false"},
          should_skip_env \in {"", "True", "false", "1"},
          args_jobs \in JobsArgs, env \in JobEnvs :
          vf = [pc |-> "start", args_should_skip |-> args_should_skip,
                should_skip_env |-> should_skip_env, args_jobs |-> args_jobs,
                env |-> env, read |-> {}, exit_code |-> -1]

\* lines 57-67
VerifySkip ==
    /\ vf.pc = "start"
    /\ ShouldSkipOf(vf.args_should_skip, vf.should_skip_env)
    /\ vf' = [vf EXCEPT !.pc = "exit", !.exit_code = 0]
    /\ UNCHANGED vfFrame

\* lines 69-99: no job ran
VerifyAllSkipped ==
    /\ vf.pc = "start"
    /\ ~ShouldSkipOf(vf.args_should_skip, vf.should_skip_env)
    /\ ScanJobs(vf.env, JobsOf(vf.args_jobs), 1, TRUE, TRUE).all_skipped
    /\ vf' = [vf EXCEPT !.read = JobVarsRead(JobsOf(vf.args_jobs)),
                        !.pc = "exit", !.exit_code = 0]
    /\ UNCHANGED vfFrame

\* lines 69-104: a job failed or was cancelled
VerifyFailed ==
    /\ vf.pc = "start"
    /\ ~ShouldSkipOf(vf.args_should_skip, vf.should_skip_env)
    /\ LET seen == ScanJobs(vf.env, JobsOf(vf.args_jobs), 1, TRUE, TRUE)
       IN  ~seen.all_skipped /\ ~seen.all_passed
    /\ vf' = [vf EXCEPT !.read = JobVarsRead(JobsOf(vf.args_jobs)),
                        !.pc = "exit", !.exit_code = 1]
    /\ UNCHANGED vfFrame

\* lines 69-107
VerifyPassed ==
    /\ vf.pc = "start"
    /\ ~ShouldSkipOf(vf.args_should_skip, vf.should_skip_env)
    /\ LET seen == ScanJobs(vf.env, JobsOf(vf.args_jobs), 1, TRUE, TRUE)
       IN  ~seen.all_skipped /\ seen.all_passed
    /\ vf' = [vf EXCEPT !.read = JobVarsRead(JobsOf(vf.args_jobs)),
                        !.pc = "exit", !.exit_code = 0]
    /\ UNCHANGED vfFrame

NextVerify ==
    \/ VerifySkip
    \/ VerifyAllSkipped
    \/ VerifyFailed
    \/ VerifyPassed

SpecVerify == InitVerify /\ [][NextVerify]_vars

\* -------------------------------- the filter as a function of its input
\* the loop run to its end, or stopped after `fuel` iterations
RECURSIVE RunLoop(_, _)
RunLoop(s, fuel) ==
    IF ~Running(s) \/ fuel = 0 THEN s ELSE RunLoop(LoopStep(s), fuel - 1)

\* an iteration that returns leaves i advanced, so Len(lines) iterations
\* reach the end of every run that has one
LoopEnd(content) ==
    LET s0 == FilterInit(content) IN RunLoop(s0, Len(s0.lines))

FilterTerminates(content) == ~Running(LoopEnd(content))

remove_packages_from_cargo_lock(content) == join(FinalFlush(LoopEnd(content)).result)

\* ------------------------------------------- vocabulary of the properties
Starts(ls) == {k \in DOMAIN ls : is_package_block_start(ls[k])}

\* the lines before the first [[package]] line
Preamble(ls) ==
    IF Starts(ls) = {} THEN ls ELSE SubSeq(ls, 1, Min(Starts(ls)) - 1)

\* the package blocks, in order; each runs from a [[package]] line up to the next
RECURSIVE Blocks(_)
Blocks(ls) ==
    IF Starts(ls) = {} THEN <<>>
    ELSE LET k    == Min(Starts(ls))
             rest == SubSeq(ls, k + 1, Len(ls))
             nxt  == IF Starts(rest) = {} THEN Len(rest) + 1 ELSE Min(Starts(rest))
         IN  << <<ls[k]>> \o SubSeq(rest, 1, nxt - 1) >>
               \o Blocks(SubSeq(rest, nxt, Len(rest)))

\* the name of a block: its first name line (None when it has none)
FirstName(b) ==
    LET named == {k \in DOMAIN b : extract_package_name(b[k]) # None}
    IN  IF named = {} THEN None ELSE extract_package_name(b[Min(named)])

BlockNames(ls) ==
    {FirstName(Blocks(ls)[k]) : k \in DOMAIN Blocks(ls)} \ {None}

\* a quoted reference to a removal-set package: "pkg" or "pkg version ..."
NamesRemovedPackage(line) ==
    \E pkg \in PACKAGES_TO_REMOVE :
        \/ startswith(strip(line), <<Q>> \o pkg \o <<Q>>)
        \/ startswith(strip(line), <<Q>> \o pkg \o <<SP>>)

\* bracket depth of the dependencies array after line k of block b
\* (0 outside an array; the opening line counts its own brackets once)
RECURSIVE ArrayDepth(_, _)
ArrayDepth(b, k) ==
    IF k = 0 THEN 0
    ELSE LET before == ArrayDepth(b, k - 1)
             delta  == count(b[k], "[") - count(b[k], "]")
         IN  IF before = 0
             THEN (IF startswith(strip(b[k]), DependenciesOpen) /\ delta > 0
                   THEN delta ELSE 0)
             ELSE (IF before + delta > 0 THEN before + delta ELSE 0)

\* line k of b lies inside the dependencies array (after its opening line)
InsideArray(b, k) == k > 1 /\ ArrayDepth(b, k - 1) > 0

IsReference(b, k) == InsideArray(b, k) /\ NamesRemovedPackage(b[k])

\* block b from line k on, without its references to removal-set packages
RECURSIVE DropReferences(_, _)
DropReferences(b, k) ==
    IF k > Len(b) THEN <<>>
    ELSE (IF IsReference(b, k) THEN <<>> ELSE <<b[k]>>) \o DropReferences(b, k + 1)

WithoutReferences(b) == DropReferences(b, 1)

IsPrefix(a, b) == Len(a) <= Len(b) /\ SubSeq(b, 1, Len(a)) = a

RECURSIVE IsSubsequence(_, _)
IsSubsequence(a, b) ==
    IF a = <<>> THEN TRUE
    ELSE IF b = <<>> THEN FALSE
    ELSE IF Head(a) = Head(b) THEN IsSubsequence(Tail(a), Tail(b))
    ELSE IsSubsequence(a, Tail(b))

\* the filter has returned to main
FilterReturned == pc \in {"validate", "open", "write", "exit"} /\ ~Running(st)

\* the lines of the text the filter returned
Output == split(modified_content)

\* ------------------------------------------------------------------ claims

\* C1: the filter loop is a single forward pass: it never runs more
\* iterations than the input has lines.
C1_SinglePassBound == steps <= Len(st.lines)

\* C2: the names of the output's blocks are the names of the input's blocks
\* minus the removal set.
C2_SetDifference ==
    FilterReturned => BlockNames(Output) = BlockNames(st.lines) \ PACKAGES_TO_REMOVE

C2_Witness ==
    /\ FilterReturned
    /\ BlockNames(st.lines) \cap PACKAGES_TO_REMOVE # {}
    /\ BlockNames(Output) # {}

\* C3: no line inside a dependencies array of a block of the output names a
\* package of the removal set.
C3_ReferenceIntegrity ==
    FilterReturned =>
        \A n \in DOMAIN Blocks(Output) :
            \A k \in DOMAIN Blocks(Output)[n] : ~IsReference(Blocks(Output)[n], k)

\* C4: the blocks of the output are the input's blocks whose name is not in
\* the removal set, in order, each with exactly its input lines except the
\* references to removal-set packages inside its dependencies array.
ExpectedBlocks(ls) ==
    LET keep == SelectSeq(Blocks(ls), LAMBDA b : FirstName(b) \notin PACKAGES_TO_REMOVE)
    IN  [n \in DOMAIN keep |-> WithoutReferences(keep[n])]

C4_NonTargetPreserved ==
    FilterReturned => Blocks(st.result) = ExpectedBlocks(st.lines)

\* C5: filtering the filter's output again returns it unchanged.
C5_Idempotent ==
    (FilterReturned /\ FilterTerminates(modified_content)) =>
        remove_packages_from_cargo_lock(modified_content) = modified_content

\* C6: the lines before the first [[package]] line start the output unchanged.
C6_PreamblePreserved ==
    FilterReturned => IsPrefix(Preamble(st.lines), st.result)

\* C7: a readable, non-empty text without a removal-set block and without a
\* reference to a removal-set package is not written, stays as it is, and
\* main returns 0.
NoTargets(ls) ==
    \A n \in DOMAIN Blocks(ls) :
        /\ FirstName(Blocks(ls)[n]) \notin PACKAGES_TO_REMOVE
        /\ \A k \in DOMAIN Blocks(ls)[n] : ~IsReference(Blocks(ls)[n], k)

C7_NoTargetNoOp ==
    (pc = "exit" /\ strip(original_content) # <<>> /\ NoTargets(split(disk0))) =>
        (exit_code = 0 /\ ~write_opened /\ disk = disk0)

\* C8: when validation rejects the filtered text main returns 1, Cargo.lock
\* was never opened for writing and still holds the original text.
C8_InvalidNotWritten ==
    (pc = "exit" /\ FilterReturned /\ ~validate_cargo_lock(modified_content)) =>
        (exit_code = 1 /\ ~write_opened /\ disk = disk0)

C8_Witness ==
    /\ pc = "exit" /\ FilterReturned
    /\ ~validate_cargo_lock(modified_content)
    /\ modified_content # original_content
    /\ validate_cargo_lock(original_content)

\* C9: Cargo.lock always holds the whole original text or the whole filtered
\* text, and the original text whenever main returns non-zero.
C9_AtomicRewrite ==
    /\ disk = disk0 \/ (FilterReturned /\ disk = modified_content)
    /\ (pc = "exit" /\ exit_code # 0) => disk = disk0

\* C10: the filter only deletes whole lines: what it has emitted and buffered
\* is a subsequence of the lines read so far, and its result is a
\* subsequence of the input lines.
C10_OnlyDeletes ==
    /\ (pc = "filter" /\ Running(st)) =>
          IsSubsequence(st.result \o st.current_package_lines, SubSeq(st.lines, 1, st.i))
    /\ FilterReturned => IsSubsequence(st.result, st.lines)

C10_Witness ==
    /\ FilterReturned
    /\ st.result # <<>>
    /\ Len(st.result) < Len(st.lines)
    /\ st.removed_deps_count > 0

\* the input blocks whose name is not in the removal set (nameless included)
KeptBlocks(ls) ==
    SelectSeq(Blocks(ls), LAMBDA b : FirstName(b) \notin PACKAGES_TO_REMOVE)

RECURSIVE TotalLen(_)
TotalLen(bs) == IF bs = <<>> THEN 0 ELSE Len(Head(bs)) + TotalLen(Tail(bs))

\* C11: the reported counts are exact: the number of removed packages is
\* the number of blocks deleted from the input, and the number of removed
\* dependency references is the number of lines dropped from surviving blocks.
BlocksDeleted == Len(Blocks(st.lines)) - Len(Blocks(st.result))

LinesDroppedFromSurvivors ==
    TotalLen(KeptBlocks(st.lines)) - TotalLen(Blocks(st.result))

C11_CountsExact ==
    FilterReturned =>
        /\ Cardinality(st.removed_packages) = BlocksDeleted
        /\ st.removed_deps_count = LinesDroppedFromSurvivors

\* C12: the text main writes to Cargo.lock has a name line in every
\* [[package]] block.
AllBlocksNamed(content) ==
    \A n \in DOMAIN Blocks(split(content)) : FirstName(Blocks(split(content))[n]) # None

C12_WrittenBlocksNamed ==
    /\ (pc \in {"open", "write"} \/ write_opened) => AllBlocksNamed(modified_content)
    /\ (pc = "exit" /\ exit_code = 0 /\ write_opened) => AllBlocksNamed(disk)

C12_Witness ==
    /\ pc = "exit" /\ exit_code = 0 /\ write_opened
    /\ disk = modified_content
    /\ Len(Blocks(split(disk))) >= 1
    /\ Len(Blocks(split(disk0))) > Len(Blocks(split(disk)))

\* C13 as stated: a text with at least as many "[" as "]" is filtered to a
\* text with at least as many "[" as "]".
BracketsOk(content) == count(content, "[") >= count(content, "]")

C13_FilterKeepsBalance ==
    (FilterReturned /\ BracketsOk(original_content)) => BracketsOk(modified_content)

\* C13 as amended: a filtered text that main accepts (writes, or leaves the
\* file as it is and returns 0) has at least as many "[" as "]"; a filtered
\* text with fewer is rejected with exit code 1 and nothing is written.
C13_AcceptedTextBalanced ==
    /\ (pc \in {"open", "write"} \/ (pc = "exit" /\ exit_code = 0 /\ FilterReturned))
          => BracketsOk(modified_content)
    /\ (pc = "exit" /\ FilterReturned /\ ~BracketsOk(modified_content))
          => (exit_code = 1 /\ ~write_opened /\ disk = disk0)

C13_Witness ==
    /\ pc = "exit" /\ FilterReturned
    /\ BracketsOk(original_content)
    /\ ~BracketsOk(modified_content)
    /\ exit_code = 1

\* the lines of the current block read so far (<<>> before the first block)
BlockSoFar(s) ==
    LET heads == {k \in 1..s.i : is_package_block_start(s.lines[k])}
    IN  IF heads = {} THEN <<>>
        ELSE SubSeq(s.lines, CHOOSE k \in heads : \A j \in heads : j <= k, s.i)

\* C15: in a surviving block the scanner is in its dependencies state
\* exactly while the array opened by "dependencies = [" is open: it leaves
\* the state on the line whose "]" closes the array, not earlier, not later.
C15_ArrayStateExact ==
    (pc = "filter" /\ ~st.skip_current_package /\ BlockSoFar(st) # <<>>) =>
        (st.in_dependencies <=> ArrayDepth(BlockSoFar(st), Len(BlockSoFar(st))) > 0)

\* C16: a line read inside a dependencies array is dropped exactly when it
\* starts with a quoted removal-set name, alone or followed by version and
\* source inside the quotes.
C16_ReferenceLinesDropped ==
    (pc = "filter" /\ Running(st) /\ AtPlain(st) /\ InDependencies(st)) =>
        (AtDroppedDep(st) <=> NamesRemovedPackage(Cur(st)))

\* C17: no line of a block whose first name line names a removal-set package
\* reaches the output, and the buffer stays empty while the block is skipped:
\* the output's blocks are, one for one and in order, made of lines of the
\* input's other blocks, and what comes before them of lines of the preamble.
C17_RemovedBlockDiscarded ==
    /\ st.skip_current_package => st.current_package_lines = <<>>
    /\ FilterReturned =>
          /\ IsSubsequence(Preamble(st.result), Preamble(st.lines))
          /\ Len(Blocks(st.result)) = Len(KeptBlocks(st.lines))
          /\ \A n \in DOMAIN Blocks(st.result) :
                IsSubsequence(Blocks(st.result)[n], KeptBlocks(st.lines)[n])

C17_Witness ==
    /\ FilterReturned
    /\ \E n \in DOMAIN Blocks(st.lines) :
          LET b == Blocks(st.lines)[n]
          IN  /\ FirstName(b) \in PACKAGES_TO_REMOVE
              /\ Len(b) >= 4
              /\ extract_package_name(b[2]) = None

\* the filter's result for one segment of the input taken alone
FilteredAlone(seg) == FinalFlush(LoopEnd(join(seg))).result

RECURSIVE FilteredBlocks(_)
FilteredBlocks(bs) ==
    IF bs = <<>> THEN <<>> ELSE FilteredAlone(Head(bs)) \o FilteredBlocks(Tail(bs))

\* C18: a [[package]] line resets the state of the block and flushes the
\* block before it unless that was skipped: right after the line the name is
\* unset, nothing is skipped, no array is open and the buffer holds the line
\* alone, and the result is what the preamble and each block give when
\* filtered alone, one after the other.
C18_BlockStartResets ==
    /\ (pc = "filter" /\ st.i >= 1 /\ is_package_block_start(st.lines[st.i])) =>
          /\ st.current_package_name = None
          /\ ~st.skip_current_package
          /\ ~st.in_dependencies /\ st.bracket_depth = 0
          /\ st.current_package_lines = <<st.lines[st.i]>>
    /\ FilterReturned =>
          st.result = (IF Preamble(st.lines) = <<>> THEN <<>>
                       ELSE FilteredAlone(Preamble(st.lines)))
                        \o FilteredBlocks(Blocks(st.lines))

C18_Witness ==
    /\ FilterReturned
    /\ Len(Blocks(st.lines)) >= 2
    /\ FirstName(Blocks(st.lines)[1]) \in PACKAGES_TO_REMOVE
    /\ Blocks(st.result) # <<>>

\* the lines of a block that are no quoted reference to a removal-set package
NonReferences(b) == SelectSeq(b, LAMBDA line : ~NamesRemovedPackage(line))

\* C19: a block without a name line is never removed: it is in the output,
\* with all its lines in order except dropped references.
C19_NamelessBlockKept ==
    FilterReturned =>
        /\ Len(Blocks(st.result)) = Len(KeptBlocks(st.lines))
        /\ \A n \in DOMAIN KeptBlocks(st.lines) :
              FirstName(KeptBlocks(st.lines)[n]) = None =>
                  /\ IsSubsequence(NonReferences(KeptBlocks(st.lines)[n]), Blocks(st.result)[n])
                  /\ IsSubsequence(Blocks(st.result)[n], KeptBlocks(st.lines)[n])

C19_Witness ==
    /\ FilterReturned
    /\ st.removed_deps_count > 0
    /\ \E n \in DOMAIN Blocks(st.lines) :
          /\ FirstName(Blocks(st.lines)[n]) = None
          /\ Len(Blocks(st.lines)[n]) >= 3

\* the name lines of a block
NameLines(b) == SelectSeq(b, LAMBDA line : extract_package_name(line) # None)

\* C20: only the first name line of a block decides: a block whose first
\* name is outside the removal set is in the output with every name line it
\* has, a later one that names a removal-set package included.
C20_FirstNameDecides ==
    FilterReturned =>
        /\ Len(Blocks(st.result)) = Len(KeptBlocks(st.lines))
        /\ \A n \in DOMAIN KeptBlocks(st.lines) :
              NameLines(Blocks(st.result)[n]) = NameLines(KeptBlocks(st.lines)[n])

C20_Witness ==
    /\ FilterReturned
    /\ \E n \in DOMAIN Blocks(st.result) :
          LET names == NameLines(Blocks(st.result)[n])
          IN  /\ Len(names) >= 2
              /\ extract_package_name(names[1]) \notin PACKAGES_TO_REMOVE
              /\ extract_package_name(names[2]) \in PACKAGES_TO_REMOVE

\* "!" directly before the first ":" of the message
BangBeforeFirstColon(msg) ==
    \E k \in DOMAIN msg :
        /\ msg[k] = ":"
        /\ \A j \in 1..(k - 1) : msg[j] # ":"
        /\ k > 1 /\ msg[k - 1] = "!"

AnyBreaking(commits) ==
    \E k \in DOMAIN commits :
        \/ contains(commits[k], <<"BREAKING", SP, "CHANGE">>)
        \/ contains(commits[k], <<"BREAKING", ":">>)
        \/ BangBeforeFirstColon(commits[k])

AnyFeat(commits) ==
    \E k \in DOMAIN commits :
        \/ SubSeq(commits[k], 1, 2) = <<"feat", ":">>
        \/ SubSeq(commits[k], 1, 2) = <<"feature", ":">>

\* C14: the increment is major when a message is breaking, whatever the
\* patch; otherwise minor when the patch is 9 or more; otherwise minor when
\* a message starts with "feat:" or "feature:"; otherwise patch.
C14_IncrementPriority ==
    ver.pc = "done" =>
        ver.increment_type =
            (IF AnyBreaking(ver.commits) THEN "major"
             ELSE IF ver.current_patch >= 9 THEN "minor"
             ELSE IF AnyFeat(ver.commits) THEN "minor"
             ELSE "patch")

C14_Witness ==
    /\ ver.pc = "done"
    /\ ver.current_patch >= 9
    /\ AnyBreaking(ver.commits)
    /\ ver.increment_type = "major"

\* the latest version of the repository as numbers
LatestNumbers == parse_version(get_latest_version(TagNames(rel.repo)).version)

\* the version that generate returned as numbers
OutNumbers == parse_version(rel.out.version)

\* C21: along a sequence of master releases that starts from no tag or from
\* a version whose patch is at most 9, every version that generate returns
\* and every tag of the repository has a patch in 0..9; from a latest patch
\* of 9 a release without a breaking change gives the next minor with patch 0.
C21_PatchBounded ==
    /\ \A tag \in TagNames(rel.repo) : IsStandardTag(tag) => TagNumbers(tag)[3] \in 0..9
    /\ rel.pc = "generated" =>
          /\ OutNumbers[3] \in 0..9
          /\ (rel.out.needs_increment /\ LatestNumbers[3] = 9 /\ rel.out.increment_type # "major")
                => OutNumbers = <<LatestNumbers[1], LatestNumbers[2] + 1, 0>>

C21_Witness ==
    /\ rel.pc = "generated"
    /\ rel.out.needs_increment
    /\ rel.out.increment_type = "minor"
    /\ LatestNumbers[3] = 9
    /\ OutNumbers[3] = 0
    /\ \E t \in rel.repo.tags : t.at >= 2 /\ t.name = get_latest_version(TagNames(rel.repo)).tag

\* the standard tags that HEAD carries
StandardTagsAtHead ==
    {t.name : t \in {u \in rel.repo.tags : u.at = Len(rel.repo.log) /\ IsStandardTag(u.name)}}

\* C22: when HEAD carries a standard tag, generate returns that tag, the
\* tag's text after the "v" as the version, needs_increment = false, and no
\* increment type; and a run of generate at a HEAD that carries the tag the
\* run before it generated returns the same version and tag.
C22_HeadTagReused ==
    /\ [](rel.pc = "generated" /\ StandardTagsAtHead # {} =>
            /\ rel.out.tag \in StandardTagsAtHead
            /\ rel.out.version = SubSeq(rel.out.tag, 2, Len(rel.out.tag))
            /\ rel.out.needs_increment = FALSE
            /\ rel.out.increment_type = "none")
    /\ [][(/\ rel.pc = "ready" /\ rel'.pc = "generated"
           /\ rel.out.needs_increment
           /\ [name |-> rel.out.tag, at |-> Len(rel.repo.log)] \in rel.repo.tags)
          => (/\ rel'.out.version = rel.out.version
              /\ rel'.out.tag = rel.out.tag
              /\ rel'.out.needs_increment = FALSE)]_vars

C22_Witness ==
    /\ rel.pc = "generated"
    /\ rel.out.needs_increment = FALSE
    /\ \E t \in rel.repo.tags :
          /\ t.name = rel.out.tag
          /\ t.at = Len(rel.repo.log)
          /\ t.at >= 2

\* the commit that the run is asked to tag
TagTarget == IF tc.args_commit # NoCommit THEN tc.args_commit ELSE tc.head

\* C23: when the tag exists at the start, locally or on origin, and every
\* copy of it is at the target commit, a run that nobody interferes with
\* deletes nothing, creates nothing, pushes nothing and reports
\* tag_created=false.
C23_ExistingTagUntouched ==
    (/\ tc.pc = "exit"
     /\ tc.others = 0
     /\ tc.local0 # NoCommit \/ tc.remote0 # NoCommit
     /\ tc.local0 \in {NoCommit, TagTarget}
     /\ tc.remote0 \in {NoCommit, TagTarget})
    => /\ ~tc.deleted_local /\ ~tc.deleted_remote
       /\ ~tc.created /\ ~tc.pushed
       /\ tc.tag_created # "true"
       /\ tc.ci => tc.tag_created = "false"

\* C24: a run whose push was rejected while origin held the tag at another
\* commit than the target ends with status 1 and without tag_created=true.
C24_RejectedPushFails ==
    (/\ tc.pc = "exit"
     /\ tc.push_failed
     /\ tc.remote_at_failure # TagTarget)
    => /\ tc.exit_code = 1
       /\ tc.tag_created # "true"

\* a name of the form vX.Y.Z.alpha-*
AlphaForm(name) ==
    /\ Len(name) >= 8
    /\ name[1] = "v" /\ name[3] = "." /\ name[5] = "." /\ name[7] = "."
    /\ name[8] = "alpha-"
    /\ \A k \in {2, 4, 6} : \E n \in 0..MaxNumber : ToString(n) = name[k]

\* X.Y.Z of a name or of a version, with or without the "v"
XYZ(text) ==
    LET t == IF text # <<>> /\ text[1] = "v" THEN Tail(text) ELSE text
    IN  SubSeq(t, 1, 5)

\* commits on the first-parent path of master up to the merge's first parent
RECURSIVE FirstParentPath(_)
FirstParentPath(c) ==
    IF c = 0 THEN {} ELSE {c} \cup FirstParentPath(IF Parents[c] = <<>> THEN 0 ELSE Parents[c][1])

\* commits that c can be reached from
RECURSIVE Reaches(_, _)
Reaches(a, b) == a = b \/ \E k \in DOMAIN Parents[b] : Reaches(a, Parents[b][k])

\* the tags that the claim says are deleted
ExpectedDeleted ==
    {t.name : t \in
        {u \in cl.local0 :
            /\ AlphaForm(u.name)
            /\ u.at # 0
            /\ ~Reaches(u.at, Parents[cl.merge_commit][1])
            /\ \/ Reaches(u.at, cl.head)
               \/ XYZ(u.name) = XYZ(cl.version)}}

\* C25: a finished cleanup has deleted, locally, exactly the alpha tags that
\* resolve, are not an ancestor of the merge commit's first parent, and are
\* an ancestor of HEAD or carry the X.Y.Z of the current version; on origin
\* it has deleted those of them that origin held and nothing else; no alpha
\* tag on the first-parent path of master before the merge and no standard
\* tag is deleted; a cleanup that exits with 1 has deleted nothing.
C25_CleanupDeletesExactly ==
    /\ cl.pc = "exit" /\ cl.exit_code = 0 =>
          /\ {t.name : t \in cl.local0} \ {t.name : t \in cl.local} = ExpectedDeleted
          /\ cl.local \subseteq cl.local0
          /\ cl.remote0 \ cl.remote = ExpectedDeleted \cap cl.remote0
          /\ cl.remote \subseteq cl.remote0
    /\ cl.pc = "exit" /\ cl.exit_code = 1 => cl.local = cl.local0 /\ cl.remote = cl.remote0
    /\ cl.pc # "idle" =>
          \A t \in cl.local0 :
              (\/ ~AlphaForm(t.name)
               \/ /\ t.at # 0
                  /\ Parents[cl.merge_commit] # <<>>
                  /\ t.at \in FirstParentPath(Parents[cl.merge_commit][1]))
              => (t \in cl.local /\ (t.name \in cl.remote0 => t.name \in cl.remote))

C25_Witness ==
    /\ cl.pc = "exit" /\ cl.exit_code = 0
    /\ cl.merge_commit = 4
    /\ [name |-> TagAlphaCurrent, at |-> 3] \in cl.local0
    /\ [name |-> TagAlphaOlder, at |-> 2] \in cl.local0
    /\ [name |-> TagStandard, at |-> 3] \in cl.local0
    /\ {t.name : t \in cl.local} = {TagAlphaOlder, TagStandard}
    /\ cl.remote = {TagAlphaOlder, TagStandard}

\* the four outcomes of a run of merge
OutcomeSeenMerged ==
    mg.last_poll = "merged" /\ mg.exit_code = 0 /\ mg.merge_calls = 0

OutcomeMergeAttempt == mg.last_poll = "mergeable" /\ mg.merge_calls = 1

OutcomeFetchError ==
    mg.last_poll = "error" /\ mg.exit_code = 1 /\ mg.merge_calls = 0

OutcomeTimeout ==
    /\ mg.last_poll \in {"none", "not_mergeable", "unknown"}
    /\ mg.exit_code = 1 /\ mg.merge_calls = 0
    /\ mg.elapsed >= mg.max_wait
    /\ mg.ci => mg.pr_merge_reason = "timeout"

\* C26: every run of merge ends; it ends in exactly one of: PR seen merged
\* (status 0, no merge call), one merge call after a poll that found the PR
\* mergeable, status 1 after a failed poll, status 1 with reason timeout
\* when the elapsed wait has reached max_wait; the merge API is never
\* called twice and never before a poll found the PR mergeable.
C26_PollEnds ==
    /\ <>(mg.pc = "exit")
    /\ [](mg.merge_calls <= 1)
    /\ [](mg.merge_calls = 1 => mg.last_poll = "mergeable")
    /\ [](mg.pc = "exit" =>
            Cardinality({k \in 1..4 :
                           \/ k = 1 /\ OutcomeSeenMerged
                           \/ k = 2 /\ OutcomeMergeAttempt
                           \/ k = 3 /\ OutcomeFetchError
                           \/ k = 4 /\ OutcomeTimeout}) = 1)

C26_Witness ==
    /\ mg.pc = "exit"
    /\ OutcomeTimeout
    /\ mg.polls >= 3
    /\ mg.elapsed > 60
    /\ mg.pr_merge_reason = "timeout"

\* the branch of the run is a bump-version-* branch
IsBumpBranch == cs.branch # <<>> /\ cs.branch[1] = "bump-version-"

\* C27: on a pull_request event for a bump-version-* branch a run yields
\* should_skip = True only when the PR creator is the expected user, and
\* ends with status 1 for every other creator, the empty one included; a
\* run for another branch never yields True, and yields False when it ends
\* with status 0.
C27_OnlyAuthorizedSkips ==
    cs.pc = "exit" =>
        /\ (IsBumpBranch /\ cs.event_name = "pull_request") =>
              /\ cs.should_skip = "True" => cs.pr_creator = cs.expected_user
              /\ cs.pr_creator # cs.expected_user => cs.exit_code = 1
        /\ (cs.branch # <<>> /\ ~IsBumpBranch) =>
              /\ cs.should_skip # "True"
              /\ cs.exit_code = 0 => cs.should_skip = "False" /\ cs.written = "False"

\* the jobs that verify is asked about, without the blanks around the names
ListedJobs ==
    IF vf.args_jobs = <<>>
    THEN { <<"check", "-", "lint">>, <<"tests">>, <<"doctests">>, <<"build">> }
    ELSE IF vf.args_jobs = <<"tests">> THEN { <<"tests">> }
    ELSE { <<"tests">>, <<"build">> }

\* the recorded result of a listed job, "" when none is recorded
Recorded(job) ==
    IF job = <<"tests">> THEN vf.env[<<"TESTS", "_RESULT">>]
    ELSE IF job = <<"build">> THEN vf.env[<<"BUILD", "_RESULT">>]
    ELSE IF job = <<"doctests">> THEN vf.env[<<"DOCTESTS", "_RESULT">>]
    ELSE vf.env[<<"CHECK", "_", "LINT", "_RESULT">>]

\* should_skip as given: the option when it is there, else the variable
SkipRequested ==
    IF vf.args_should_skip # "none" THEN vf.args_should_skip = "true"
    ELSE vf.should_skip_env \in {"True", "1"}

\* C28: verify ends with status 1 exactly when should_skip is false and a
\* listed job has the result failure or cancelled (in any case of letters);
\* with should_skip true it ends with status 0 and has read no job result;
\* with every listed job skipped or without a recorded result it ends with
\* status 0.
C28_VerifyExit ==
    vf.pc = "exit" =>
        /\ vf.exit_code = 1 <=>
              (/\ ~SkipRequested
               /\ \E job \in ListedJobs :
                     Recorded(job) \in {"failure", "Failure", "cancelled"})
        /\ vf.exit_code \in {0, 1}
        /\ SkipRequested => vf.exit_code = 0 /\ vf.read = {}
        /\ (\A job \in ListedJobs : Recorded(job) \in {"", "skipped"}) => vf.exit_code = 0

C28_Witness ==
    /\ vf.pc = "exit"
    /\ vf.exit_code = 1
    /\ vf.args_should_skip = "none" /\ vf.should_skip_env = "false"
    /\ vf.args_jobs = <<"tests", ",", SP, "build">>
    /\ vf.env[<<"TESTS", "_RESULT">>] = "success"
    /\ vf.env[<<"BUILD", "_RESULT">>] = "cancelled"
    /\ vf.read = { <<"TESTS", "_RESULT">>, <<"BUILD", "_RESULT">> }

====
